---- MODULE Spec2Model ----
(***************************************************************************)
(* Ops Agent v3 (src/src/agent/agent_v3.py): the plan-act-observe loop     *)
(* agent_loop, the /execute endpoint that starts it on a thread, and the   *)
(* process-wide logger the loops share.                                    *)
(*                                                                         *)
(* Oracle text is a sequence of lexical tokens; json.loads and the three   *)
(* regular expressions of the loop are operators over token sequences.     *)
(***************************************************************************)
EXTENDS Integers, Sequences, FiniteSets, TLC

\* ------------------------------------------------------------------ bounds
\* Largest step budget a submission carries.
MaxBudget == 2
\* Number of submissions (one thread each).
NumTasks == 2
\* Last clock second of a behaviour.
MaxClock == 1

Tasks == 1..NumTasks

\* ------------------------------------------------------------------ tokens
\* A token: k is "p" (punctuation), "s" (a quoted string, v its content),
\* "w" (a bare word), "n" (a number) or "f" (a code fence of three backquotes).
P(c) == [k |-> "p", v |-> c]
S(c) == [k |-> "s", v |-> c]
W(c) == [k |-> "w", v |-> c]
N(c) == [k |-> "n", v |-> c]
Fence == [k |-> "f", v |-> "fence"]

\* String contents that hold a '}' or a '{' character.
CloseBraceStrs == {"awk }"}
OpenBraceStrs == {"awk {"}

\* The token holds the character '}' / '{' (as punctuation or inside a string).
HasClose(tok) == tok = P("}") \/ (tok.k = "s" /\ tok.v \in CloseBraceStrs)
HasOpen(tok) == tok = P("{") \/ (tok.k = "s" /\ tok.v \in OpenBraceStrs)

\* --------------------------------------------------------------- json.loads
\* A JSON value: t is "str", "num", "null", "obj" or "arr"; s the content of
\* a string or number; kv the members of an object (k the key) or the
\* elements of an array (k empty), in text order.
JStr(c) == [t |-> "str", s |-> c, kv |-> <<>>]
JNum(c) == [t |-> "num", s |-> c, kv |-> <<>>]
JNull == [t |-> "null", s |-> "", kv |-> <<>>]
JObj(members) == [t |-> "obj", s |-> "", kv |-> members]
JArr(members) == [t |-> "arr", s |-> "", kv |-> members]

Fail == [ok |-> FALSE, val |-> JNull, next |-> 0]
Got(val, next) == [ok |-> TRUE, val |-> val, next |-> next]

RECURSIVE ParseValue(_, _), ParseMembers(_, _, _), ParseElems(_, _, _)

\* The members of an object from position i (just after '{' or ','), acc the
\* members read so far.
ParseMembers(toks, i, acc) ==
  IF i + 2 > Len(toks) \/ toks[i].k # "s" \/ toks[i + 1] # P(":") THEN Fail
  ELSE LET r == ParseValue(toks, i + 2) IN
       IF ~r.ok \/ r.next > Len(toks) THEN Fail
       ELSE LET acc2 == Append(acc, [k |-> toks[i].v, v |-> r.val]) IN
            IF toks[r.next] = P("}") THEN Got(JObj(acc2), r.next + 1)
            ELSE IF toks[r.next] = P(",") THEN ParseMembers(toks, r.next + 1, acc2)
            ELSE Fail

\* The elements of an array from position i (just after '[' or ',').
ParseElems(toks, i, acc) ==
  LET r == ParseValue(toks, i) IN
  IF ~r.ok \/ r.next > Len(toks) THEN Fail
  ELSE LET acc2 == Append(acc, [k |-> "", v |-> r.val]) IN
       IF toks[r.next] = P("]") THEN Got(JArr(acc2), r.next + 1)
       ELSE IF toks[r.next] = P(",") THEN ParseElems(toks, r.next + 1, acc2)
       ELSE Fail

\* One JSON value starting at position i.
ParseValue(toks, i) ==
  IF i > Len(toks) THEN Fail
  ELSE IF toks[i].k = "s" THEN Got(JStr(toks[i].v), i + 1)
  ELSE IF toks[i].k = "n" THEN Got(JNum(toks[i].v), i + 1)
  ELSE IF toks[i] = W("null") THEN Got(JNull, i + 1)
  ELSE IF toks[i] = P("{") THEN
       IF i + 1 <= Len(toks) /\ toks[i + 1] = P("}") THEN Got(JObj(<<>>), i + 2)
       ELSE ParseMembers(toks, i + 1, <<>>)
  ELSE IF toks[i] = P("[") THEN
       IF i + 1 <= Len(toks) /\ toks[i + 1] = P("]") THEN Got(JArr(<<>>), i + 2)
       ELSE ParseElems(toks, i + 1, <<>>)
  ELSE Fail

\* json.loads(text): the whole text is one JSON value, or JSONDecodeError.
JsonLoads(toks) ==
  LET r == ParseValue(toks, 1) IN
  IF r.ok /\ r.next = Len(toks) + 1 THEN [ok |-> TRUE, val |-> r.val]
  ELSE [ok |-> FALSE, val |-> JNull]

\* ------------------------------------------------------------ dict access
IsDict(val) == val.t = "obj"
\* key in data
HasKey(val, key) == \E i \in 1..Len(val.kv) : val.kv[i].k = key
\* data[key] for a key that is present: the last member with that key wins.
GetKey(val, key) ==
  LET last == CHOOSE i \in 1..Len(val.kv) :
                /\ val.kv[i].k = key
                /\ \A j \in (i + 1)..Len(val.kv) : val.kv[j].k # key
  IN val.kv[last].v
\* data.get(key, default)
DictGet(val, key, default) == IF HasKey(val, key) THEN GetKey(val, key) ELSE default
\* The keys of a dict.
Keys(val) == {val.kv[i].k : i \in 1..Len(val.kv)}

\* ----------------------------------------------------- regular expressions
NoMatch == [found |-> FALSE, group |-> <<>>]
Match(toks, i, j) == [found |-> TRUE, group |-> SubSeq(toks, i, j)]

\* re.search of the fenced-block pattern (fence, optional json tag, '{' ... '}',
\* fence) with re.DOTALL: from the
\* leftmost fence that is followed (after an optional json tag) by '{', the
\* group runs to the first '}' that a fence follows.
FenceBodyStart(toks, i) ==
  IF i > Len(toks) \/ toks[i] # Fence THEN 0
  ELSE IF i + 1 <= Len(toks) /\ toks[i + 1] = P("{") THEN i + 1
  ELSE IF i + 2 <= Len(toks) /\ toks[i + 1] = W("json") /\ toks[i + 2] = P("{") THEN i + 2
  ELSE 0
FenceEnds(toks, b) ==
  {e \in (b + 1)..(Len(toks) - 1) : toks[e] = P("}") /\ toks[e + 1] = Fence}
FenceStarts(toks) ==
  {i \in 1..Len(toks) :
     FenceBodyStart(toks, i) # 0 /\ FenceEnds(toks, FenceBodyStart(toks, i)) # {}}
Min(set) == CHOOSE x \in set : \A y \in set : x <= y
SearchFenced(toks) ==
  IF FenceStarts(toks) = {} THEN NoMatch
  ELSE LET b == FenceBodyStart(toks, Min(FenceStarts(toks)))
       IN Match(toks, b, Min(FenceEnds(toks, b)))

\* re.search(r'(\{\s*"tool"\s*:\s*"[^"]+"\s*,\s*"args"\s*:\s*\{[^}]*\}\s*\})',
\* text): '{' "tool" ':' a non-empty string ',' "args" ':' '{', then anything
\* without a '}' character, then '}' '}'.
StrictEnd(toks, i) ==
  IF /\ i + 9 <= Len(toks)
     /\ toks[i] = P("{") /\ toks[i + 1] = S("tool") /\ toks[i + 2] = P(":")
     /\ toks[i + 3].k = "s" /\ toks[i + 3].v # ""
     /\ toks[i + 4] = P(",") /\ toks[i + 5] = S("args") /\ toks[i + 6] = P(":")
     /\ toks[i + 7] = P("{")
  THEN LET closers == {e \in (i + 8)..Len(toks) : HasClose(toks[e])} IN
       IF closers = {} THEN 0
       ELSE LET e == Min(closers) IN
            IF toks[e] = P("}") /\ e + 1 <= Len(toks) /\ toks[e + 1] = P("}")
            THEN e + 1 ELSE 0
  ELSE 0
SearchStrict(toks) ==
  LET starts == {i \in 1..Len(toks) : StrictEnd(toks, i) # 0} IN
  IF starts = {} THEN NoMatch
  ELSE Match(toks, Min(starts), StrictEnd(toks, Min(starts)))

\* re.search(r'(\{[^{]*?"tool"[^}]*?\})', text, re.DOTALL): from a '{', with
\* no further '{' character before the first "tool", to the first '}'
\* character after that "tool".
LenientEnd(toks, i) ==
  IF i > Len(toks) \/ ~HasOpen(toks[i]) THEN 0
  ELSE LET tools == {j \in (i + 1)..Len(toks) :
                       /\ toks[j] = S("tool")
                       /\ \A m \in (i + 1)..(j - 1) : ~HasOpen(toks[m])}
       IN IF tools = {} THEN 0
          ELSE LET closers == {e \in (Min(tools) + 1)..Len(toks) : HasClose(toks[e])}
               IN IF closers = {} THEN 0 ELSE Min(closers)
\* A match that starts or ends inside a quoted string cuts the string in two:
\* the cut piece is text no JSON value contains.
Cut(tok) == IF tok.k = "s" THEN W("cut") ELSE tok
SearchLenient(toks) ==
  LET starts == {i \in 1..Len(toks) : LenientEnd(toks, i) # 0} IN
  IF starts = {} THEN NoMatch
  ELSE LET i == Min(starts)
           e == LenientEnd(toks, i)
       IN [found |-> TRUE,
           group |-> <<Cut(toks[i])>> \o SubSeq(toks, i + 1, e - 1) \o <<Cut(toks[e])>>]

\* ------------------------------------------------------- the parse cascade
\* Lines 203-246: json.loads of the whole text; on JSONDecodeError the fenced
\* block, and only without a fenced block the strict pattern; the lenient
\* pattern only when the strict match does not load. ok = FALSE is the
\* parse_error record followed by continue.
ParseFailure(stage) == [ok |-> FALSE, data |-> JNull, stage |-> stage]
Parsed(val, stage) == [ok |-> TRUE, data |-> val, stage |-> stage]
ParseLenient(toks) ==
  LET m == SearchLenient(toks) IN
  IF ~m.found THEN ParseFailure(4)
  ELSE IF JsonLoads(m.group).ok THEN Parsed(JsonLoads(m.group).val, 4)
  ELSE ParseFailure(4)
ParseStrict(toks) ==
  LET m == SearchStrict(toks) IN
  IF ~m.found THEN ParseFailure(3)
  ELSE IF JsonLoads(m.group).ok THEN Parsed(JsonLoads(m.group).val, 3)
  ELSE ParseLenient(toks)
ParseFenced(toks) ==
  LET m == SearchFenced(toks) IN
  IF ~m.found THEN ParseStrict(toks)
  ELSE IF JsonLoads(m.group).ok THEN Parsed(JsonLoads(m.group).val, 2)
  ELSE ParseFailure(2)
ParseResponseSkipsWhole(toks) == ParseFenced(toks)
ParseResponse(toks) ==
  IF JsonLoads(toks).ok THEN Parsed(JsonLoads(toks).val, 1)
  ELSE ParseFenced(toks)

\* ------------------------------------------------------- oracle responses
LB == P("{")
RB == P("}")
Colon == P(":")
Comma == P(",")
ToolCall(tool, args) ==
  <<LB, S("tool"), Colon, S(tool), Comma, S("args"), Colon>> \o args \o <<RB>>
ShellLs == ToolCall("shell", <<LB, S("cmd"), Colon, S("ls"), RB>>)

\* The texts the oracle may answer with, by name.
Text(r) ==
  CASE r = "shell_ls" -> ShellLs
    [] r = "pkg_extra" ->
         ToolCall("pkg_install", <<LB, S("name"), Colon, S("x"), Comma,
                                   S("unexpected"), Colon, N("1"), RB>>)
    [] r = "service_status" ->
         ToolCall("service", <<LB, S("action"), Colon, S("status"), Comma,
                               S("name"), Colon, S("nginx"), RB>>)
    [] r = "write" ->
         ToolCall("write_file", <<LB, S("path"), Colon, S("p"), Comma,
                                  S("content"), Colon, S("c"), RB>>)
    [] r = "fenced_read" ->
         <<W("Here"), Fence, W("json")>>
           \o ToolCall("read_file", <<LB, S("path"), Colon, S("p"), RB>>)
           \o <<Fence>>
    [] r = "oracle_error" -> <<LB, S("error"), Colon, S("overloaded"), RB>>
    [] r = "frobnicate" -> ToolCall("frobnicate", <<LB, RB>>)
    [] r = "no_tool" -> <<LB, S("args"), Colon, LB, RB, RB>>
    [] r = "prose" -> <<W("Task"), W("completed")>>
    [] r = "embedded" -> <<W("Sure")>> \o ShellLs \o <<W("done")>>
    [] r = "array" -> <<P("["), N("1"), P("]")>>
    [] r = "number" -> <<N("1")>>
    [] r = "no_args" -> <<LB, S("tool"), Colon, S("shell"), RB>>
    [] r = "args_str" -> ToolCall("shell", <<S("ls")>>)
    [] r = "name_num" ->
         ToolCall("pkg_install", <<LB, S("name"), Colon, N("1"), RB>>)
    [] r = "cmd_num" -> ToolCall("shell", <<LB, S("cmd"), Colon, N("1"), RB>>)
    [] r = "tool_list" ->
         <<LB, S("tool"), Colon, P("["), S("shell"), P("]"), Comma,
           S("args"), Colon, LB, RB, RB>>
    [] r = "fenced_bad" ->
         <<Fence, LB, W("oops"), RB, Fence>> \o ShellLs
    [] r = "strict_bad" ->
         <<LB, S("tool"), Colon, S("frobnicate"), RB>>
           \o ToolCall("shell", <<LB, W("oops"), RB>>)
    [] r = "lenient_only" -> <<W("Sure"), LB, S("tool"), Colon, S("nope"), RB>>
    [] r = "brace_str" ->
         <<W("Sure")>>
           \o ToolCall("shell", <<LB, S("cmd"), Colon, S("awk }"), RB>>)
    [] r = "llm_error" -> <<LB, S("error"), Colon, S("LLM error: timeout"), RB>>

OracleTexts ==
  {"shell_ls", "pkg_extra", "service_status", "write", "fenced_read",
   "oracle_error", "frobnicate", "no_tool", "prose", "embedded", "array",
   "number", "no_args", "args_str", "name_num", "cmd_num", "tool_list",
   "fenced_bad", "strict_bad", "lenient_only", "brace_str"}

\* ------------------------------------------------------------ capabilities
\* TOOLS, with the parameter names inspect.signature gives each function.
TOOLS == {"pkg_install", "service", "read_file", "write_file", "shell"}
Params(tool) ==
  CASE tool = "pkg_install" -> {"name"}
    [] tool = "service" -> {"action", "name"}
    [] tool = "read_file" -> {"path"}
    [] tool = "write_file" -> {"path", "content"}
    [] tool = "shell" -> {"cmd"}

\* What the host does with a command or a file operation.
HostOutcomes == {"ok", "fail", "timeout", "exception"}

\* A capability's payload: the keys of the dict it returns, with the values
\* of "error" and "returncode" when present.
Payload(keys, error, returncode) ==
  [keys |-> keys, error |-> error, returncode |-> returncode]
NoResult == Payload({}, "", 0)
Returned(payload) == [raised |-> FALSE, result |-> payload]
Raised == [raised |-> TRUE, result |-> NoResult]

\* run_cmd: every outcome of subprocess.run is inside the try; a command that
\* is not a string makes subprocess.run raise TypeError there.
run_cmd(cmd, env) ==
  IF cmd.t # "str" \/ env = "exception"
  THEN Returned(Payload({"error", "returncode"}, "exception", -1))
  ELSE IF env = "timeout"
  THEN Returned(Payload({"error", "returncode"}, "timeout", -1))
  ELSE Returned(Payload({"returncode", "stdout", "stderr"}, "",
                        IF env = "ok" THEN 0 ELSE 1))
\* shlex.quote(name) is outside any try and raises TypeError unless name is a
\* string.
pkg_install(name, env) ==
  IF name.t # "str" THEN Raised ELSE run_cmd(JStr("apt-get install"), env)
service(action, name, env) ==
  IF name.t # "str" THEN Raised ELSE run_cmd(JStr("systemctl"), env)
read_file(path, env) ==
  IF env = "ok" THEN Returned(Payload({"content"}, "", 0))
  ELSE Returned(Payload({"error"}, "exception", 0))
write_file(path, content, env) ==
  IF env = "ok" /\ content.t = "str" THEN Returned(Payload({"status"}, "", 0))
  ELSE Returned(Payload({"error"}, "exception", 0))
shell(cmd, env) == run_cmd(cmd, env)

\* tool_fn(**filtered_args): binding raises TypeError when a parameter has no
\* argument; otherwise the function runs.
Invoke(tool, args, env) ==
  IF Params(tool) \ Keys(args) # {} THEN Raised
  ELSE CASE tool = "pkg_install" -> pkg_install(GetKey(args, "name"), env)
         [] tool = "service" ->
              service(GetKey(args, "action"), GetKey(args, "name"), env)
         [] tool = "read_file" -> read_file(GetKey(args, "path"), env)
         [] tool = "write_file" ->
              write_file(GetKey(args, "path"), GetKey(args, "content"), env)
         [] tool = "shell" -> shell(GetKey(args, "cmd"), env)

\* {k: v for k, v in tool_args.items() if k in valid_params}
FilterAll(tool_args, valid_params) == tool_args
FilterArgs(tool_args, valid_params) ==
  LET items == {i \in 1..Len(tool_args.kv) :
                  \A j \in (i + 1)..Len(tool_args.kv) :
                    tool_args.kv[j].k # tool_args.kv[i].k}
      Keep(m) == m.k \in valid_params
  IN JObj(SelectSeq([i \in 1..Len(tool_args.kv) |->
                       IF i \in items THEN tool_args.kv[i]
                       ELSE [k |-> "", v |-> JNull]],
                    Keep))

\* ------------------------------------------------------------------- state
VARIABLES
  world,      \* the environment of a behaviour: who submits, what the oracle
              \* may answer, the budgets asked for, what the host may do
  now,        \* datetime.now(), in seconds
  reqpc,      \* execute_task: "idle", "started" (thread.start() done), "returned"
  response,   \* the HTTP response of execute_task
  max_steps,  \* req.max_steps
  pc,         \* the thread: "none", "spawned", "seeding", "requesting",
              \* "interpreting", "dispatching", "finishing", "returned",
              \* "raised" (an exception is leaving agent_loop), "failed"
  step,       \* the loop variable
  results,    \* the Step Records
  history,    \* the conversation history
  llm_resp,   \* the name of the oracle's last text
  log_file,   \* the task's log file name (its timestamp), -1 before
  handlers,   \* the FileHandlers attached to the process-wide logger
  files,      \* per log file, whose lines it holds (0: the request handler)
  llm_calls,  \* number of llm() calls
  calls,      \* the tool_fn(**filtered_args) calls made
  ret         \* what agent_loop returned

vars == <<world, now, reqpc, response, max_steps, pc, step, results, history,
          llm_resp, log_file, handlers, files, llm_calls, calls, ret>>

NoRet == [status |-> "", steps |-> 0]

InitState ==
  /\ now = 0
  /\ reqpc = [t \in Tasks |-> "idle"]
  /\ response = [t \in Tasks |-> "none"]
  /\ max_steps = [t \in Tasks |-> 0]
  /\ pc = [t \in Tasks |-> "none"]
  /\ step = [t \in Tasks |-> 0]
  /\ results = [t \in Tasks |-> <<>>]
  /\ history = [t \in Tasks |-> <<>>]
  /\ llm_resp = [t \in Tasks |-> ""]
  /\ log_file = [t \in Tasks |-> -1]
  /\ handlers = {}
  /\ files = [f \in 0..MaxClock |-> {}]
  /\ llm_calls = [t \in Tasks |-> 0]
  /\ calls = [t \in Tasks |-> <<>>]
  /\ ret = [t \in Tasks |-> NoRet]

\* The texts llm() can return: the oracle's, or its own error payload.
AllTexts == OracleTexts \cup {"llm_error"}

\* One submission, any text from llm(), any budget, any host outcome.
Init ==
  /\ world = [clients |-> {1}, oracle |-> AllTexts,
              budgets |-> 0..MaxBudget, envs |-> HostOutcomes]
  /\ InitState

\* Every task submitted, with a budget of one step each, an oracle that
\* answers with a shell command or a bare number, and a host that succeeds.
InitConc ==
  /\ world = [clients |-> Tasks, oracle |-> {"shell_ls", "number"},
              budgets |-> {1}, envs |-> {"ok"}]
  /\ InitState

\* One text of llm() for each way a step can go: a dispatched call, a parse
\* error, a fatal signal, an unknown tool, a raise on the parsed value, a
\* raise on the arguments and one inside a capability, and llm()'s own error.
FairTexts ==
  {"shell_ls", "prose", "oracle_error", "frobnicate", "array", "args_str",
   "name_num", "llm_error"}
InitFair ==
  /\ world = [clients |-> {1}, oracle |-> FairTexts,
              budgets |-> 0..MaxBudget, envs |-> HostOutcomes]
  /\ InitState

\* ----------------------------------------------------------------- logging
\* logger.info / logger.error by `author`: the line goes to every file that
\* a handler attached to the logger writes.
Emit(author, hs, fs) ==
  [f \in DOMAIN fs |->
     IF \E h \in hs : h.file = f THEN fs[f] \cup {author} ELSE fs[f]]

\* ------------------------------------------------------------ execute_task
\* Lines 358-371: log the request, start the thread. Submissions are
\* numbered in the order they arrive.
ExecuteTaskNotStarted(t, n) ==
  /\ t \in world.clients
  /\ \A u \in 1..(t - 1) : reqpc[u] # "idle"
  /\ n \in world.budgets
  /\ reqpc[t] = "idle"
  /\ reqpc' = [reqpc EXCEPT ![t] = "started"]
  /\ max_steps' = [max_steps EXCEPT ![t] = n]
  /\ files' = Emit(0, handlers, files)
  /\ UNCHANGED <<world, now, response, pc, step, results, history, llm_resp,
                 log_file, handlers, llm_calls, calls, ret>>
ExecuteTask(t, n) ==
  /\ t \in world.clients
  /\ \A u \in 1..(t - 1) : reqpc[u] # "idle"
  /\ n \in world.budgets
  /\ reqpc[t] = "idle"
  /\ reqpc' = [reqpc EXCEPT ![t] = "started"]
  /\ max_steps' = [max_steps EXCEPT ![t] = n]
  /\ pc' = [pc EXCEPT ![t] = "spawned"]
  /\ files' = Emit(0, handlers, files)
  /\ UNCHANGED <<world, now, response, step, results, history, llm_resp,
                 log_file, handlers, llm_calls, calls, ret>>

\* Lines 373-377: the response, whatever the thread is doing.
ExecuteReturnJoined(t) ==
  /\ reqpc[t] = "started"
  /\ pc[t] \in {"returned", "failed"}
  /\ reqpc' = [reqpc EXCEPT ![t] = "returned"]
  /\ response' = [response EXCEPT ![t] = IF pc[t] = "failed" THEN "error" ELSE "accepted"]
  /\ UNCHANGED <<world, now, max_steps, pc, step, results, history, llm_resp,
                 log_file, handlers, files, llm_calls, calls, ret>>
ExecuteReturn(t) ==
  /\ reqpc[t] = "started"
  /\ reqpc' = [reqpc EXCEPT ![t] = "returned"]
  /\ response' = [response EXCEPT ![t] = "accepted"]
  /\ UNCHANGED <<world, now, max_steps, pc, step, results, history, llm_resp,
                 log_file, handlers, files, llm_calls, calls, ret>>

\* Lines 367-368: run_agent catches what agent_loop raises and logs it.
RunAgentCatch(t) ==
  /\ pc[t] = "raised"
  /\ pc' = [pc EXCEPT ![t] = "failed"]
  /\ files' = Emit(t, handlers, files)
  /\ UNCHANGED <<world, now, reqpc, response, max_steps, step, results,
                 history, llm_resp, log_file, handlers, llm_calls, calls, ret>>

\* -------------------------------------------------------------- agent_loop
\* for step in range(1, max_steps + 1): another iteration, or the loop ends.
AfterStepOffByOne(n, budget) == IF n <= budget THEN "requesting" ELSE "finishing"
AfterStep(n, budget) == IF n < budget THEN "requesting" ELSE "finishing"

\* Lines 175-184: the log file named by the second, its handler, the banner.
AgentStart(t) ==
  /\ pc[t] = "spawned"
  /\ pc' = [pc EXCEPT ![t] = "seeding"]
  /\ log_file' = [log_file EXCEPT ![t] = now]
  /\ handlers' = handlers \cup {[owner |-> t, file |-> now]}
  /\ files' = Emit(t, handlers', files)
  /\ UNCHANGED <<world, now, reqpc, response, max_steps, step, results,
                 history, llm_resp, llm_calls, calls, ret>>

\* Lines 186-193: rag_search (it returns a context, "" on any failure, and
\* never raises), the seed of the history, no results. A message is its role
\* and what it quotes: the seed the context and the task (both opaque text),
\* an assistant message the oracle's text, a report the capability's payload.
SeedMsg == [role |-> "user", resp |-> "", result |-> NoResult]
AssistantMsgAsUser(resp) == [role |-> "user", resp |-> resp, result |-> NoResult]
AssistantMsg(resp) == [role |-> "assistant", resp |-> resp, result |-> NoResult]
ResultMsg(result) == [role |-> "user", resp |-> "", result |-> result]
SeedWithSystemEntry(t) ==
  /\ pc[t] = "seeding"
  /\ history' = [history EXCEPT ![t] =
       <<[role |-> "system", resp |-> "", result |-> NoResult], SeedMsg>>]
  /\ results' = [results EXCEPT ![t] = <<>>]
  /\ step' = [step EXCEPT ![t] = 0]
  /\ pc' = [pc EXCEPT ![t] = AfterStep(0, max_steps[t])]
  /\ files' = Emit(t, handlers, files)
  /\ UNCHANGED <<world, now, reqpc, response, max_steps, llm_resp, log_file,
                 handlers, llm_calls, calls, ret>>
Seed(t) ==
  /\ pc[t] = "seeding"
  /\ history' = [history EXCEPT ![t] = <<SeedMsg>>]
  /\ results' = [results EXCEPT ![t] = <<>>]
  /\ step' = [step EXCEPT ![t] = 0]
  /\ pc' = [pc EXCEPT ![t] = AfterStep(0, max_steps[t])]
  /\ files' = Emit(t, handlers, files)
  /\ UNCHANGED <<world, now, reqpc, response, max_steps, llm_resp, log_file,
                 handlers, llm_calls, calls, ret>>

\* Lines 195-200: the next step's llm() call; llm returns the oracle's text,
\* or the JSON error payload when the request fails.
Request(t, r) ==
  /\ pc[t] = "requesting"
  /\ r \in world.oracle
  /\ step' = [step EXCEPT ![t] = step[t] + 1]
  /\ llm_calls' = [llm_calls EXCEPT ![t] = llm_calls[t] + 1]
  /\ llm_resp' = [llm_resp EXCEPT ![t] = r]
  /\ pc' = [pc EXCEPT ![t] = "interpreting"]
  /\ files' = Emit(t, handlers, files)
  /\ UNCHANGED <<world, now, reqpc, response, max_steps, results, history,
                 log_file, handlers, calls, ret>>

\* The Step Records of lines 216/237/241/245, 250, 259 and 274-279.
Formatted(prefix, val) == [t |-> "fmt", s |-> prefix, kv |-> <<[k |-> "", v |-> val]>>]
ParseErrorRecord(n, resp) ==
  [step |-> n, keys |-> {"step", "error", "response"},
   error |-> JStr("parse_error"), response |-> resp,
   tool |-> JNull, args |-> JNull, result |-> NoResult]
FatalRecord(n, error) ==
  [step |-> n, keys |-> {"step", "error"}, error |-> error, response |-> "",
   tool |-> JNull, args |-> JNull, result |-> NoResult]
UnknownToolRecord(n, tool_name) ==
  [step |-> n, keys |-> {"step", "error"},
   error |-> Formatted("unknown_tool: ", tool_name), response |-> "",
   tool |-> JNull, args |-> JNull, result |-> NoResult]
ResultRecord(n, tool_name, filtered_args, result) ==
  [step |-> n, keys |-> {"step", "tool", "args", "result"}, error |-> JNull,
   response |-> "", tool |-> tool_name, args |-> filtered_args,
   result |-> result]

\* hash(tool_name) in `tool_name not in TOOLS`: lists and dicts raise TypeError.
Hashable(val) == val.t \notin {"arr", "obj"}
InTools(val) == val.t = "str" /\ val.s \in TOOLS

\* What lines 203-260 do with the text: "parse_error", "raise" (data is not
\* a dict, or the tool name cannot be hashed), "fatal", "unknown_tool" or
\* "dispatch"; p is the cascade's outcome.
VerdictNoFatalCheck(p) ==
  IF ~p.ok THEN "parse_error"
  ELSE IF ~IsDict(p.data) THEN "raise"
  ELSE IF ~Hashable(DictGet(p.data, "tool", JNull)) THEN "raise"
  ELSE IF ~InTools(DictGet(p.data, "tool", JNull)) THEN "unknown_tool"
  ELSE "dispatch"
Verdict(p) ==
  IF ~p.ok THEN "parse_error"
  ELSE IF ~IsDict(p.data) THEN "raise"
  ELSE IF HasKey(p.data, "error") THEN "fatal"
  ELSE IF ~Hashable(DictGet(p.data, "tool", JNull)) THEN "raise"
  ELSE IF ~InTools(DictGet(p.data, "tool", JNull)) THEN "unknown_tool"
  ELSE "dispatch"

\* The cascade and the verdict on each text the oracle client can return.
ParseOf == [r \in AllTexts |-> ParseResponse(Text(r))]
VerdictOf == [r \in AllTexts |-> Verdict(ParseOf[r])]

\* The records lines 203-260 append at step n for text r: one for a parse
\* error, a fatal signal or an unknown tool, none otherwise.
RecordedUnknownSkipped(n, r) ==
  CASE VerdictOf[r] = "parse_error" -> <<ParseErrorRecord(n, r)>>
    [] VerdictOf[r] = "fatal" ->
         <<FatalRecord(n, GetKey(ParseOf[r].data, "error"))>>
    [] OTHER -> <<>>
Recorded(n, r) ==
  CASE VerdictOf[r] = "parse_error" -> <<ParseErrorRecord(n, r)>>
    [] VerdictOf[r] = "fatal" ->
         <<FatalRecord(n, GetKey(ParseOf[r].data, "error"))>>
    [] VerdictOf[r] = "unknown_tool" ->
         <<UnknownToolRecord(n, DictGet(ParseOf[r].data, "tool", JNull))>>
    [] OTHER -> <<>>

\* Lines 203-260: parse, the fatal check, the registry check.
Interpret(t) ==
  LET v == VerdictOf[llm_resp[t]] IN
  /\ pc[t] = "interpreting"
  /\ results' = [results EXCEPT ![t] = @ \o Recorded(step[t], llm_resp[t])]
  /\ pc' = [pc EXCEPT ![t] =
       CASE v = "raise" -> "raised"
         [] v = "fatal" -> "finishing"
         [] v = "dispatch" -> "dispatching"
         [] OTHER -> AfterStep(step[t], max_steps[t])]
  /\ files' = Emit(t, handlers, files)
  /\ UNCHANGED <<world, now, reqpc, response, max_steps, step, history,
                 llm_resp, log_file, handlers, llm_calls, calls, ret>>

\* Lines 262-289: filter the arguments, call the capability, record the
\* result, extend the history. tool_args.items() raises unless args is a dict.
Dispatch(t, env) ==
  LET data == ParseOf[llm_resp[t]].data
      tool_name == GetKey(data, "tool")
      tool_args == DictGet(data, "args", JObj(<<>>))
      filtered_args == FilterArgs(tool_args, Params(tool_name.s))
      out == Invoke(tool_name.s, filtered_args, env)
  IN
  /\ pc[t] = "dispatching"
  /\ env \in world.envs
  /\ IF ~IsDict(tool_args)
     THEN /\ pc' = [pc EXCEPT ![t] = "raised"]
          /\ UNCHANGED <<calls, results, history>>
     ELSE /\ calls' = [calls EXCEPT ![t] =
                 Append(@, [step |-> step[t], tool |-> tool_name.s,
                            supplied |-> tool_args, args |-> filtered_args])]
          /\ IF out.raised
             THEN /\ pc' = [pc EXCEPT ![t] = "raised"]
                  /\ UNCHANGED <<results, history>>
             ELSE /\ results' = [results EXCEPT ![t] =
                       Append(@, ResultRecord(step[t], tool_name,
                                              filtered_args, out.result))]
                  /\ history' = [history EXCEPT ![t] =
                       @ \o <<AssistantMsg(llm_resp[t]), ResultMsg(out.result)>>]
                  /\ pc' = [pc EXCEPT ![t] = AfterStep(step[t], max_steps[t])]
  /\ files' = Emit(t, handlers, files)
  /\ UNCHANGED <<world, now, reqpc, response, max_steps, step, llm_resp,
                 log_file, handlers, llm_calls, ret>>

\* Lines 291-304: detach and close the handler, log the summary, return.
Finish(t) ==
  /\ pc[t] = "finishing"
  /\ handlers' = handlers \ {[owner |-> t, file |-> log_file[t]]}
  /\ files' = Emit(t, handlers', files)
  /\ ret' = [ret EXCEPT ![t] = [status |-> "completed", steps |-> Len(results[t])]]
  /\ pc' = [pc EXCEPT ![t] = "returned"]
  /\ UNCHANGED <<world, now, reqpc, response, max_steps, step, results,
                 history, llm_resp, log_file, llm_calls, calls>>

\* A second passes. The clock is read only at line 175, so it is let run
\* only while a thread may still read it.
Tick ==
  /\ now < MaxClock
  /\ \E t \in world.clients : pc[t] \in {"none", "spawned"}
  /\ now' = now + 1
  /\ UNCHANGED <<world, reqpc, response, max_steps, pc, step, results,
                 history, llm_resp, log_file, handlers, files, llm_calls,
                 calls, ret>>

Next ==
  \/ \E t \in Tasks, n \in 0..MaxBudget : ExecuteTask(t, n)
  \/ \E t \in Tasks : ExecuteReturn(t)
  \/ \E t \in Tasks : AgentStart(t)
  \/ \E t \in Tasks : Seed(t)
  \/ \E t \in Tasks, r \in AllTexts : Request(t, r)
  \/ \E t \in Tasks : Interpret(t)
  \/ \E t \in Tasks, env \in HostOutcomes : Dispatch(t, env)
  \/ \E t \in Tasks : Finish(t)
  \/ \E t \in Tasks : RunAgentCatch(t)
  \/ Tick

Spec == Init /\ [][Next]_vars
SpecConc == InitConc /\ [][Next]_vars

\* What task t's thread can do. A started thread is scheduled again and
\* again, and llm(), rag_search() and the capabilities return: each thread's
\* next step is taken when it stays possible.
ThreadStep(t) ==
  \/ AgentStart(t)
  \/ Seed(t)
  \/ \E r \in AllTexts : Request(t, r)
  \/ Interpret(t)
  \/ \E env \in HostOutcomes : Dispatch(t, env)
  \/ Finish(t)
  \/ RunAgentCatch(t)
SpecFair == InitFair /\ [][Next]_vars /\ \A t \in Tasks : WF_vars(ThreadStep(t))

\* ------------------------------------------------------------------ claims
Last(seq) == seq[Len(seq)]
\* The thread has ended: agent_loop returned, or run_agent caught what it raised.
Terminated(t) == pc[t] \in {"returned", "failed"}
\* The last text of llm() has been through lines 203-260.
Interpreted(t) ==
  llm_resp[t] # "" /\ pc[t] \notin {"none", "spawned", "seeding", "interpreting"}
\* A fatal signal: the text parses to an object with a top-level error key.
FatalSignal(r) ==
  ParseOf[r].ok /\ IsDict(ParseOf[r].data) /\ HasKey(ParseOf[r].data, "error")
\* The record of the fatal signal (line 250), by its shape.
IsFatalRecord(rec) == rec.keys = {"step", "error"} /\ rec.error.t # "fmt"
IsErrorRecord(rec) == "error" \in rec.keys
\* The calls made at step n of task t.
CallsAt(t, n) == {i \in 1..Len(calls[t]) : calls[t][i].step = n}
\* The loop goes on after the step: to the next request, or to the end when
\* the budget is spent.
GoesOn(t) == pc[t] \in {"requesting", "finishing", "returned"}

\* C11: under fairness, with every oracle, knowledge-base and capability
\* call returning, the thread of every submitted task ends: agent_loop
\* returns, or run_agent has caught what it raised.
C11_EveryTaskTerminates ==
  \A t \in Tasks : (reqpc[t] # "idle") ~> Terminated(t)
C11_Witness ==
  \E t \in Tasks :
    /\ Terminated(t) /\ max_steps[t] = MaxBudget /\ step[t] = MaxBudget
    /\ Len(calls[t]) = MaxBudget

\* The oracle reporting completion, as line 288 invites it to: in words.
CompletionReports == {"prose"}
\* C12: once the oracle has reported completion at some step, the run makes
\* no further oracle call and no further capability invocation, and ends,
\* even when budget remains.
C12_CompletionEndsRun ==
  \A t \in Tasks : \A i \in 1..Len(results[t]) :
    ("response" \in results[t][i].keys
       /\ results[t][i].response \in CompletionReports)
      => /\ llm_calls[t] <= results[t][i].step
         /\ \A j \in 1..Len(calls[t]) : calls[t][j].step <= results[t][i].step
         /\ pc[t] \in {"finishing", "returned"}

\* Stage k of the cascade taken on its own parses the text: the whole text,
\* the fenced block, the strict pattern's match, the lenient pattern's match.
StageParses(k, toks) ==
  CASE k = 1 -> JsonLoads(toks).ok
    [] k = 2 -> SearchFenced(toks).found /\ JsonLoads(SearchFenced(toks).group).ok
    [] k = 3 -> SearchStrict(toks).found /\ JsonLoads(SearchStrict(toks).group).ok
    [] k = 4 -> SearchLenient(toks).found /\ JsonLoads(SearchLenient(toks).group).ok
StagesParsing == [r \in AllTexts |-> {k \in 1..4 : StageParses(k, Text(r))}]
\* C13: a text is a parse failure only when all four stages fail on it, and
\* a text some stage parses is accepted at the first stage that parses it.
C13_FailureOnlyWhenAllStagesFail ==
  \A t \in Tasks :
    Interpreted(t) =>
      /\ ParseOf[llm_resp[t]].ok = (StagesParsing[llm_resp[t]] # {})
      /\ ParseOf[llm_resp[t]].ok =>
            ParseOf[llm_resp[t]].stage = Min(StagesParsing[llm_resp[t]])

\* A flat request object: {"tool": <string>, "args": {...}} with no object
\* or array among the args values.
FlatRequest(val) ==
  /\ IsDict(val) /\ Len(val.kv) = 2
  /\ val.kv[1].k = "tool" /\ val.kv[1].v.t = "str"
  /\ val.kv[2].k = "args" /\ val.kv[2].v.t = "obj"
  /\ \A m \in 1..Len(val.kv[2].v.kv) :
       val.kv[2].v.kv[m].v.t \in {"str", "num", "null"}
\* Where the text holds such an object, as <<first token, last token>>.
FlatRequestsIn(toks) ==
  {ij \in (1..Len(toks)) \X (1..Len(toks)) :
     /\ ij[1] <= ij[2]
     /\ JsonLoads(SubSeq(toks, ij[1], ij[2])).ok
     /\ FlatRequest(JsonLoads(SubSeq(toks, ij[1], ij[2])).val)}
\* The text is not JSON, has no fenced block and embeds a flat request
\* object; val is the first one.
EmbeddedRequest(toks) ==
  IF /\ ~JsonLoads(toks).ok
     /\ \A i \in 1..Len(toks) : toks[i] # Fence
     /\ FlatRequestsIn(toks) # {}
  THEN LET ij == CHOOSE x \in FlatRequestsIn(toks) :
                   \A y \in FlatRequestsIn(toks) : x[1] <= y[1]
       IN [has |-> TRUE, val |-> JsonLoads(SubSeq(toks, ij[1], ij[2])).val]
  ELSE [has |-> FALSE, val |-> JNull]
EmbeddedOf == [r \in AllTexts |-> EmbeddedRequest(Text(r))]
\* C14: a text that is not JSON, has no fenced block and embeds a flat
\* request object in prose is parsed at stage 3 or 4 into the first such
\* object, and the step is not recorded as a parse error.
C14_EmbeddedObjectRecovered ==
  \A t \in Tasks :
    (Interpreted(t) /\ EmbeddedOf[llm_resp[t]].has)
      => /\ ParseOf[llm_resp[t]].ok
         /\ ParseOf[llm_resp[t]].stage \in {3, 4}
         /\ ParseOf[llm_resp[t]].data = EmbeddedOf[llm_resp[t]].val
         /\ \A i \in 1..Len(results[t]) :
              results[t][i].step = step[t] => "response" \notin results[t][i].keys

\* json.loads of each whole text.
WholeOf == [r \in AllTexts |-> JsonLoads(Text(r))]
\* C15: when the whole text parses as JSON, the cascade stops at stage 1
\* and the object the step uses is that parse: no later stage replaces it.
C15_WholeTextParseWins ==
  \A t \in Tasks :
    (Interpreted(t) /\ WholeOf[llm_resp[t]].ok)
      => /\ ParseOf[llm_resp[t]].ok /\ ParseOf[llm_resp[t]].stage = 1
         /\ ParseOf[llm_resp[t]].data = WholeOf[llm_resp[t]].val
         /\ \A i \in CallsAt(t, step[t]) :
              /\ JStr(calls[t][i].tool) = GetKey(WholeOf[llm_resp[t]].val, "tool")
              /\ calls[t][i].supplied =
                   DictGet(WholeOf[llm_resp[t]].val, "args", JObj(<<>>))
C15_Witness ==
  \E t \in Tasks :
    /\ Interpreted(t) /\ WholeOf[llm_resp[t]].ok
    /\ 3 \in StagesParsing[llm_resp[t]]
    /\ CallsAt(t, step[t]) # {}

\* The history starts with a user entry, ends with a user entry and
\* alternates user / assistant in between.
Alternates(h) ==
  /\ Len(h) % 2 = 1
  /\ \A i \in 1..Len(h) :
       h[i].role = IF i % 2 = 1 THEN "user" ELSE "assistant"
IsPrefix(a, b) == Len(a) <= Len(b) /\ SubSeq(b, 1, Len(a)) = a
\* C16: the history each llm() call is given starts with a user entry, ends
\* with a user entry and alternates strictly; and the history only grows at
\* its end: every earlier history is a prefix of every later one.
C16_HistoryAlternatesAppendOnly ==
  [][\A t \in Tasks :
       /\ pc[t] = "requesting" => Alternates(history[t])
       /\ IsPrefix(history[t], history'[t])]_vars
C16_Witness ==
  \E t \in Tasks :
    /\ pc[t] = "interpreting" /\ step[t] = 2
    /\ Len(history[t]) = 3 /\ Alternates(history[t])

\* C17: on every exit path (budget exhausted, fatal signal, escaping
\* exception) the task's log handler is released: once the run has ended no
\* handler of the task is attached to the logger.
C17_LogHandleReleased ==
  \A t \in Tasks :
    Terminated(t) => \A h \in handlers : h.owner # t

\* C18: any two distinct submitted tasks, two whose loops start within the
\* same clock second included, get different log file names.
C18_DistinctLogFiles ==
  \A a, b \in Tasks :
    (a # b /\ log_file[a] # -1 /\ log_file[b] # -1)
      => log_file[a] # log_file[b]

\* The steps of task t whose capability was invoked and its result recorded.
ResultSteps(t) == {i \in 1..Len(results[t]) : "result" \in results[t][i].keys}
\* C19: a step that ends in a parse failure or an unknown tool leaves the
\* history as it was, so the next llm() call is given the history the
\* failed one was given; and the history, once seeded, always holds one
\* entry plus two for each step whose capability was invoked and recorded.
C19_HistoryCountsResults ==
  [][\A t \in Tasks :
       /\ history'[t] # <<>> =>
            Len(history'[t]) = 1 + 2 * Cardinality(ResultSteps(t)')
       /\ (/\ Len(results'[t]) = Len(results[t]) + 1
           /\ Last(results'[t]).keys \in {{"step", "error", "response"},
                                          {"step", "error"}})
            => history'[t] = history[t]]_vars
C19_Witness ==
  \E t \in Tasks :
    /\ pc[t] = "interpreting" /\ step[t] = 2 /\ Len(history[t]) = 1
    /\ Len(results[t]) = 1 /\ IsErrorRecord(results[t][1])
    /\ ~IsFatalRecord(results[t][1])

\* C20: the Step Records carry contiguous step indices: the k-th record
\* appended has index k.
C20_ContiguousStepIndices ==
  \A t \in Tasks : \A k \in 1..Len(results[t]) : results[t][k].step = k
C20_Witness ==
  \E t \in Tasks :
    /\ Len(results[t]) = MaxBudget
    /\ "response" \in results[t][1].keys
    /\ "result" \in results[t][MaxBudget].keys

\* C1: at every point of a run with budget N, at most N Step Records have
\* been appended, at most N oracle calls and at most N capability
\* invocations have been made, whatever the oracle answers.
C1_BudgetCeiling ==
  \A t \in Tasks :
    /\ Len(results[t]) <= max_steps[t]
    /\ llm_calls[t] <= max_steps[t]
    /\ Len(calls[t]) <= max_steps[t]
    /\ step[t] <= max_steps[t]
C1_Witness ==
  \E t \in Tasks :
    /\ pc[t] = "returned" /\ max_steps[t] = MaxBudget
    /\ Len(results[t]) = MaxBudget /\ llm_calls[t] = MaxBudget
    /\ Len(calls[t]) = MaxBudget

\* C2: a run with budget N >= 1 that receives no fatal signal has exactly N
\* Step Records when it has terminated.
C2_Exhaustion ==
  \A t \in Tasks :
    ( /\ Terminated(t) /\ max_steps[t] >= 1
      /\ ~FatalSignal(llm_resp[t])
      /\ \A i \in 1..Len(results[t]) : ~IsFatalRecord(results[t][i]) )
    => Len(results[t]) = max_steps[t]

\* C3: when the text of step k is a fatal signal the task ends at once: no
\* capability is invoked for the step, no further oracle call is made, the
\* result carries a failure status, and the Step Records are the k-1 records
\* from before that text.
C3_FatalTerminates ==
  \A t \in Tasks :
    (Interpreted(t) /\ FatalSignal(llm_resp[t]))
    => /\ pc[t] \in {"finishing", "returned"}
       /\ llm_calls[t] = step[t]
       /\ CallsAt(t, step[t]) = {}
       /\ Len(results[t]) = step[t] - 1
       /\ pc[t] = "returned" => ret[t].status # "completed"

\* C3, amended: when the text of step k is a fatal signal the task ends at
\* once: no capability is invoked for the step and no further oracle call is
\* made; the step's record, holding the signal's error value, is appended as
\* the k-th and last Step Record, and the result's status is "completed" as
\* for every run.
C3_FatalRecordedThenStop ==
  \A t \in Tasks :
    (Interpreted(t) /\ FatalSignal(llm_resp[t]))
    => /\ pc[t] \in {"finishing", "returned"}
       /\ llm_calls[t] = step[t]
       /\ CallsAt(t, step[t]) = {}
       /\ Len(results[t]) = step[t]
       /\ Last(results[t]) =
            FatalRecord(step[t], GetKey(ParseOf[llm_resp[t]].data, "error"))
       /\ \A i \in 1..(Len(results[t]) - 1) : ~IsFatalRecord(results[t][i])
       /\ pc[t] = "returned" =>
            ret[t] = [status |-> "completed", steps |-> step[t]]
C3_Witness ==
  \E t \in Tasks :
    /\ pc[t] = "returned" /\ Interpreted(t) /\ FatalSignal(llm_resp[t])
    /\ step[t] < max_steps[t]
    /\ Len(results[t]) = step[t] /\ IsFatalRecord(Last(results[t]))
    /\ ret[t].status = "completed"

\* C4: a text that is no fatal signal and yields no valid Action Request (no
\* stage parses it, or the parsed JSON is not an object with a string tool
\* and an object args) raises nothing: the step gets a Step Record with an
\* error outcome and the loop goes on.
WellShaped(data) ==
  /\ IsDict(data)
  /\ HasKey(data, "tool") /\ GetKey(data, "tool").t = "str"
  /\ HasKey(data, "args") /\ GetKey(data, "args").t = "obj"
InvalidRequest(r) ==
  ~FatalSignal(r) /\ (~ParseOf[r].ok \/ ~WellShaped(ParseOf[r].data))
C4_ParseFailureNeverRaises ==
  \A t \in Tasks :
    (Interpreted(t) /\ InvalidRequest(llm_resp[t]))
    => /\ GoesOn(t)
       /\ Len(results[t]) = step[t]
       /\ IsErrorRecord(Last(results[t]))
       /\ ~IsFatalRecord(Last(results[t]))

\* C5: when the parsed action name is no key of the registry, no capability
\* is invoked for the step, a non-fatal error record is appended for it and
\* the loop goes on; and every capability invoked is one of the registry.
UnregisteredName(r) ==
  /\ ParseOf[r].ok /\ IsDict(ParseOf[r].data) /\ ~FatalSignal(r)
  /\ ~InTools(DictGet(ParseOf[r].data, "tool", JNull))
C5_UnknownToolNotDispatched ==
  \A t \in Tasks :
    /\ \A i \in 1..Len(calls[t]) : calls[t][i].tool \in TOOLS
    /\ (Interpreted(t) /\ UnregisteredName(llm_resp[t]))
       => /\ CallsAt(t, step[t]) = {}
          /\ GoesOn(t)
          /\ Len(results[t]) = step[t]
          /\ IsErrorRecord(Last(results[t]))
          /\ ~IsFatalRecord(Last(results[t]))

\* C6: every call of a registered capability with the filtered arguments
\* gives the loop a payload (the step's record holds it); none raises.
HasResultAt(t, n) ==
  \E i \in 1..Len(results[t]) :
    results[t][i].step = n /\ "result" \in results[t][i].keys
C6_CapabilitiesNeverRaise ==
  \A t \in Tasks :
    \A i \in 1..Len(calls[t]) :
      HasResultAt(t, calls[t][i].step) /\ pc[t] \notin {"raised", "failed"}

\* C7: when a dispatched capability fails (timeout, an exception inside it,
\* a nonzero exit code) the failure is a structured result in the step's
\* record, the record is no fatal one, the result is reported into the
\* history and the loop goes on.
\* The capability's body ran when every parameter was given an argument.
FailurePayload(result) ==
  "error" \in result.keys \/ ("returncode" \in result.keys /\ result.returncode # 0)
Entered(c) == Params(c.tool) \subseteq Keys(c.args)
C7_CapabilityFailureNonFatal ==
  \A t \in Tasks :
    \A i \in {k \in 1..Len(calls[t]) : Entered(calls[t][k])} :
      LET n == calls[t][i].step IN
      /\ HasResultAt(t, n)
      /\ \A j \in 1..Len(results[t]) :
           (results[t][j].step = n /\ FailurePayload(results[t][j].result))
           => /\ \E h \in 1..Len(history[t]) :
                   history[t][h] = ResultMsg(results[t][j].result)
              /\ (j = Len(results[t]) => GoesOn(t))

\* C8: the argument names passed to a capability are the oracle's argument
\* names that the capability declares, each with the oracle's value; names it
\* does not declare are dropped and the call is made all the same; the Step
\* Record holds the mapping that was passed.
C8_ArgumentFiltering ==
  \A t \in Tasks :
    /\ \A i \in 1..Len(calls[t]) :
         LET c == calls[t][i] IN
         /\ Keys(c.args) = Keys(c.supplied) \cap Params(c.tool)
         /\ \A k \in Keys(c.args) : GetKey(c.args, k) = GetKey(c.supplied, k)
    /\ \A j \in 1..Len(results[t]) :
         "result" \in results[t][j].keys
         => \E i \in CallsAt(t, results[t][j].step) :
              /\ results[t][j].args = calls[t][i].args
              /\ results[t][j].tool = JStr(calls[t][i].tool)
    /\ ( /\ Interpreted(t) /\ VerdictOf[llm_resp[t]] = "dispatch"
         /\ pc[t] # "dispatching"
         /\ IsDict(DictGet(ParseOf[llm_resp[t]].data, "args", JObj(<<>>))) )
       => CallsAt(t, step[t]) # {}
C8_Witness ==
  \E t \in Tasks :
    \E j \in 1..Len(results[t]) :
      \E i \in CallsAt(t, results[t][j].step) :
        /\ "result" \in results[t][j].keys
        /\ "unexpected" \in Keys(calls[t][i].supplied)
        /\ Keys(results[t][j].args) = {"name"}
        /\ GetKey(results[t][j].args, "name") = JStr("x")

\* C9: with several tasks running, no line that task b's loop produces is
\* appended to task a's audit log file (stated for two tasks whose files
\* have different names; one name for both is claim C18's case).
C9_AuditLogIsolation ==
  \A a \in Tasks : \A b \in Tasks \ {a} :
    (log_file[a] # -1 /\ log_file[b] # log_file[a])
    => b \notin files[log_file[a]]

\* C10: the submission answers `accepted` without waiting for its loop: the
\* answer can be given in whatever state the thread is, and nothing the loop
\* does (not even an exception leaving it) makes the answer an error.
C10_SubmissionNeverBlocks ==
  \A t \in Tasks :
    /\ reqpc[t] = "started" => ENABLED ExecuteReturn(t)
    /\ reqpc[t] = "returned" => response[t] = "accepted"
    /\ response[t] \in {"none", "accepted"}
C10_Witness ==
  \E t \in Tasks :
    /\ response[t] = "accepted"
    /\ pc[t] = "interpreting"
====
